---- MODULE Spec2Model ----
(***************************************************************************)
(* Model of the usage ledger of the AI side panel add-on (analytics.py):   *)
(* the analytics record kept in the host's configuration store, the        *)
(* tracking operations run on the UI thread (each a read-modify-write of   *)
(* the whole record) and the background flush threads that upload a        *)
(* snapshot and write it back with last_analytics_sent.                    *)
(*                                                                         *)
(* Python values are modelled as follows.  A dict is a function whose      *)
(* DOMAIN is the set of keys present.  A str holding a date or a timestamp *)
(* is the sequence of its character codes, so that the lexical comparison  *)
(* of analytics.py:194 is a comparison of sequences.  An enum-valued str   *)
(* is a TLA+ string.  None is NoneS where a TLA+ string is expected and    *)
(* NoneT where a character sequence is expected.  Time is counted in ticks *)
(* of 1/TicksPerDay day from the proleptic Gregorian ordinal day 1, as     *)
(* Python's datetime counts its ordinals.                                  *)
(***************************************************************************)
EXTENDS Integers, Sequences, FiniteSets, TLC

\* ------------------------------------------------------------------ bounds
\* clock ticks per calendar day
TicksPerDay == 2
\* UI-thread calls in one behaviour
MaxCalls == 2
\* clock advances in one behaviour
MaxAdvance == 1
\* flush threads alive at once
MaxThreads == 2
\* days since the install in the records the retention metrics are computed on
MaxSinceInstall == 10
\* days with usage in those records
MaxActive == 3
\* in the records for flush gating: days since the last upload
MaxDaysSinceSent == 2
\* start_recording calls in the shortcut recorder
MaxRecordings == 2
\* pending single-shot timers of one kind
MaxTimers == 2
\* runs of complete_onboarding, and of _replace_with_panel
MaxRuns == 2

\* -------------------------------------------------------- program constants
\* timedelta(days=90), analytics.py:186
RetentionDays == 90

\* --------------------------------------------------------------- calendar
IsLeap(y) == (y % 4 = 0 /\ y % 100 # 0) \/ y % 400 = 0

DaysInMonth(y, m) ==
    IF m = 2 THEN (IF IsLeap(y) THEN 29 ELSE 28)
    ELSE IF m \in {4, 6, 9, 11} THEN 30 ELSE 31

DaysBeforeYear(y) ==
    (y - 1) * 365 + ((y - 1) \div 4) - ((y - 1) \div 100) + ((y - 1) \div 400)

RECURSIVE DaysBeforeMonth(_, _)
DaysBeforeMonth(y, m) ==
    IF m = 1 THEN 0 ELSE DaysBeforeMonth(y, m - 1) + DaysInMonth(y, m - 1)

\* date(y, m, d).toordinal()
YmdToOrd(y, m, d) == DaysBeforeYear(y) + DaysBeforeMonth(y, m) + d

\* the years the model's clock can reach
Years == 2025 .. 2029

\* date.fromordinal(n) as <<year, month, day>>
OrdToYmd(n) ==
    LET y == CHOOSE yy \in Years :
                 DaysBeforeYear(yy) < n /\ n <= DaysBeforeYear(yy + 1)
        r == n - DaysBeforeYear(y)
        m == CHOOSE mm \in 1 .. 12 :
                 DaysBeforeMonth(y, mm) < r
                 /\ r <= DaysBeforeMonth(y, mm) + DaysInMonth(y, mm)
    IN  <<y, m, r - DaysBeforeMonth(y, m)>>

\* ---------------------------------------------------------------- strings
\* ord("0"), ord("-"), ord("T")
Chr0 == 48
ChrDash == 45
ChrT == 84

Digit(n) == Chr0 + n

\* "%02d" % n
Fmt2(n) == <<Digit((n \div 10) % 10), Digit(n % 10)>>

\* "%04d" % n
Fmt4(n) == <<Digit((n \div 1000) % 10), Digit((n \div 100) % 10)>> \o Fmt2(n % 100)

\* int(s) of a string of decimal digits
RECURSIVE ParseInt(_)
ParseInt(s) ==
    IF s = <<>> THEN 0
    ELSE 10 * ParseInt(SubSeq(s, 1, Len(s) - 1)) + (s[Len(s)] - Chr0)

\* Python's str < str: lexicographic on the code points
RECURSIVE StrLess(_, _)
StrLess(a, b) ==
    IF b = <<>> THEN FALSE
    ELSE IF a = <<>> THEN TRUE
    ELSE IF a[1] # b[1] THEN a[1] < b[1]
    ELSE StrLess(Tail(a), Tail(b))

StrGE(a, b) == ~StrLess(a, b)

\* ------------------------------------------------------------------- time
\* the calendar day (ordinal) of a clock value
DayOf(t) == t \div TicksPerDay

\* datetime.strftime("%Y-%m-%d") of the day with ordinal n
StrfDate(n) ==
    LET d == OrdToYmd(n)
    IN  Fmt4(d[1]) \o <<ChrDash>> \o Fmt2(d[2]) \o <<ChrDash>> \o Fmt2(d[3])

\* the ordinal of the day a "YYYY-MM-DD" string names
ParseDate(s) ==
    YmdToOrd(ParseInt(SubSeq(s, 1, 4)), ParseInt(SubSeq(s, 6, 7)),
             ParseInt(SubSeq(s, 9, 10)))

\* datetime.isoformat(): the date, "T" and the time of day
IsoFormat(t) == StrfDate(DayOf(t)) \o <<ChrT>> \o Fmt2(t % TicksPerDay)

\* datetime.fromisoformat(s), as a clock value
FromIso(s) == ParseDate(SubSeq(s, 1, 10)) * TicksPerDay + ParseInt(SubSeq(s, 12, 13))

\* the clock when the add-on is first loaded: 2026-11-01, start of day
StartTime == YmdToOrd(2026, 11, 1) * TicksPerDay

\* ------------------------------------------------------------------ dicts
NoneS == "None"
NoneT == <<>>
EmptyDict == [k \in {} |-> 0]

\* d.get(k, dflt)
Get(d, k, dflt) == IF k \in DOMAIN d THEN d[k] ELSE dflt

\* d[k] = v
Put(d, k, v) == [x \in (DOMAIN d) \cup {k} |-> IF x = k THEN v ELSE d[x]]

\* ------------------------------------------------------------ environment
\* sys.platform
Platform == "darwin"

\* what get_locale_info() can return: the detected values, or {} when the
\* detection raised
LocaleInfos ==
    { [locale |-> "en_US", encoding |-> "UTF-8", platform |-> "Darwin",
       timezone |-> "PST"],
      EmptyDict }

SignupMethods == {"sidebar_button", "organic"}
ButtonTypes == {"signup", "login"}
TutorialStatuses == {"completed", "skip", "skipped_midway"}
\* (current, total) pairs passed to track_tutorial_step
TutorialSteps == {<<1, 2>>, <<2, 2>>}

\* the clock moves on by one tick, by the retention window, or by one day more
ClockJumps == {1, RetentionDays * TicksPerDay, (RetentionDays + 1) * TicksPerDay}

\* ------------------------------------------------------------------ state
VARIABLES
    store,      \* config["analytics"]: the persisted analytics record
    endpoint,   \* whether config["analytics_endpoint"] is set
    now,        \* datetime.now(), in ticks
    ui,         \* the UI thread: the call it is in, or the last one it made;
                \* pc is "raised" when that call ended by raising to its caller
    threads,    \* the background _send threads
    dirty,      \* a flush wrote the store since the UI thread's last call began
    calls,      \* UI calls made so far
    advances,   \* clock advances so far
    posts,      \* the day of each HTTP POST sent so far, in order
    manager,    \* the TutorialManager singleton and its checklist
    recorder,   \* the QuickActionsSettingsView, its timers and the keyboard
    accordion   \* the OnboardingAccordion and its timers

\* the variables of the usage ledger (analytics.py) and of the widgets
ledgerVars == <<store, endpoint, now, ui, threads, dirty, calls, advances, posts>>
guiVars == <<manager, recorder, accordion>>
vars == <<ledgerVars, guiVars>>

ThreadIds == 1 .. MaxThreads

NoCall ==
    [pc |-> "idle", op |-> "none", arg |-> "", read |-> EmptyDict,
     rec |-> EmptyDict, ret |-> EmptyDict, t |-> StartTime, seq |-> TRUE]

NoThread == [pc |-> "none", snap |-> EmptyDict, resp |-> NoneS]

\* TutorialManager.__init__: no checklist (None is <<>>, a checklist c is
\* <<c>>), no completed task
NoManager == [checklist |-> <<>>, completed_tasks |-> {}]

\* QuickActionsSettingsView.__init__ with the default shortcuts: not
\* recording; no key is held down, no check_recording_complete timer is
\* pending (each is kept as the number of the recording that scheduled it),
\* and start_recording has not been called
NoRecorder ==
    [recording_target |-> NoneS,
     pressed_keys |-> <<>>,
     shortcuts |-> [add_to_chat |-> <<"Meta", "F">>,
                    ask_question |-> <<"Meta", "R">>],
     held |-> {},
     timers |-> <<>>,
     recordings |-> 0]

\* OnboardingAccordion.__init__: four items of one task each, none checked;
\* no timer pending, complete_onboarding and _replace_with_panel not yet run
NoAccordion ==
    [checked |-> [item_index \in 0 .. 3 |-> FALSE],
     progress_timers |-> 0,
     complete_timers |-> 0,
     replace_timers |-> 0,
     tutorial_timers |-> 0,
     completions |-> 0,
     replacements |-> 0]

\* the widgets as constructed, while the ledger runs
GuiIdle == manager = NoManager /\ recorder = NoRecorder /\ accordion = NoAccordion

Init ==
    /\ store = EmptyDict
    /\ endpoint \in BOOLEAN
    /\ now = StartTime
    /\ ui = NoCall
    /\ threads = [i \in ThreadIds |-> NoThread]
    /\ dirty = FALSE
    /\ calls = 0
    /\ advances = 0
    /\ posts = <<>>
    /\ GuiIdle

\* ------------------------------------------------------------ persistence
\* get_analytics_data(): config.get("analytics", {})
get_analytics_data == store

\* save_analytics_data(analytics), run by the UI thread as the last step of a
\* call: config["analytics"] = analytics; writeConfig
save_analytics_data ==
    /\ ui.pc = "save"
    /\ store' = ui.rec
    /\ ui' = [ui EXCEPT !.pc = "idle"]
    /\ UNCHANGED <<endpoint, now, threads, dirty, calls, advances, posts, guiVars>>

\* The UI thread is between calls. A call that starts a _send thread returns
\* once thread.start() has: nothing joins the thread.
\* A call that raised has ended too.
UiFreeAfterJoin ==
    ui.pc \in {"idle", "raised"} /\ \A i \in ThreadIds : threads[i].pc = "none"
UiFree == ui.pc \in {"idle", "raised"}

\* The UI thread enters a call: it has read `read`, computed `rec` and,
\* when `saves`, goes on to save_analytics_data(rec); `ret` is what a reader
\* returns, `started` the threads after it.
CallWith(op, arg, rec, saves, ret, started) ==
    /\ UiFree
    /\ calls < MaxCalls
    /\ calls' = calls + 1
    /\ ui' = [pc |-> IF saves THEN "save" ELSE "idle", op |-> op, arg |-> arg,
              read |-> store, rec |-> rec, ret |-> ret, t |-> now,
              seq |-> ~dirty]
    /\ dirty' = FALSE
    /\ threads' = started
    /\ UNCHANGED <<store, endpoint, now, advances, posts, guiVars>>

\* a call that starts no thread
Call(op, arg, rec, saves, ret) == CallWith(op, arg, rec, saves, ret, threads)

\* ------------------------------------------------------------- operations
\* locale_info.get(key)
LocaleFieldGuessed(locale_info, key) == Get(locale_info, key, "en_US")
LocaleField(locale_info, key) == Get(locale_info, key, NoneS)

\* the record init_analytics builds when first_install_date is not set
\* (first a variant that leaves daily_usage as it finds it)
InitRecordKeepingUsage(analytics, locale_info, t) ==
    LET a1 == Put(analytics, "first_install_date", IsoFormat(t))
        a2 == Put(a1, "platform", Platform)
        a3 == Put(a2, "locale", LocaleField(locale_info, "locale"))
        a4 == Put(a3, "timezone", LocaleField(locale_info, "timezone"))
        a5 == Put(a4, "total_uses", 0)
        a6 == Put(a5, "daily_usage", Get(a5, "daily_usage", EmptyDict))
        a7 == Put(a6, "last_used_date", NoneT)
        a8 == Put(a7, "signup_method", NoneS)
        a9 == Put(a8, "has_logged_in", FALSE)
        a10 == Put(a9, "auth_button_clicked", NoneS)
        a11 == Put(a10, "onboarding_completed", FALSE)
        a12 == Put(a11, "tutorial_status", NoneS)
        a13 == Put(a12, "tutorial_current_step", NoneT)
        a14 == Put(a13, "quick_action_usage_count", 0)
    IN  Put(a14, "shortcut_usage_count", 0)
InitRecord(analytics, locale_info, t) ==
    LET a1 == Put(analytics, "first_install_date", IsoFormat(t))
        a2 == Put(a1, "platform", Platform)
        a3 == Put(a2, "locale", LocaleField(locale_info, "locale"))
        a4 == Put(a3, "timezone", LocaleField(locale_info, "timezone"))
        a5 == Put(a4, "total_uses", 0)
        a6 == Put(a5, "daily_usage", EmptyDict)
        a7 == Put(a6, "last_used_date", NoneT)
        a8 == Put(a7, "signup_method", NoneS)
        a9 == Put(a8, "has_logged_in", FALSE)
        a10 == Put(a9, "auth_button_clicked", NoneS)
        a11 == Put(a10, "onboarding_completed", FALSE)
        a12 == Put(a11, "tutorial_status", NoneS)
        a13 == Put(a12, "tutorial_current_step", NoneT)
        a14 == Put(a13, "quick_action_usage_count", 0)
    IN  Put(a14, "shortcut_usage_count", 0)

\* init_analytics without its guard
NeedsInitAlways(analytics) == TRUE

\* `not analytics.get("first_install_date")`
NeedsInit(analytics) == Get(analytics, "first_install_date", NoneT) = NoneT

init_analytics ==
    LET analytics == get_analytics_data
    IN  IF NeedsInit(analytics)
        THEN \E locale_info \in LocaleInfos :
                 Call("init_analytics", locale_info,
                      InitRecord(analytics, locale_info, now), TRUE, EmptyDict)
        ELSE Call("init_analytics", "", analytics, FALSE, EmptyDict)

\* the comparison of analytics.py:194 with > for >=
KeepsDateStrict(date, cutoff_str) == StrLess(cutoff_str, date)

\* the comparison of analytics.py:194
KeepsDate(date, cutoff_str) == StrGE(date, cutoff_str)

\* cleanup_old_daily_data(analytics) at clock t
cleanup_old_daily_data(analytics, t) ==
    IF "daily_usage" \notin DOMAIN analytics THEN analytics
    ELSE LET cutoff_str == StrfDate(DayOf(t - RetentionDays * TicksPerDay))
             daily_usage == analytics["daily_usage"]
             kept == {date \in DOMAIN daily_usage : KeepsDate(date, cutoff_str)}
         IN  Put(analytics, "daily_usage", [date \in kept |-> daily_usage[date]])

\* the record track_usage saves
UsageRecordRestarted(analytics, t) ==
    LET today == StrfDate(DayOf(t))
        a1 == Put(analytics, "total_uses", Get(analytics, "total_uses", 0) + 1)
        daily_usage == Get(analytics, "daily_usage", EmptyDict)
        a2 == Put(a1, "daily_usage", Put(daily_usage, today, 1))
        a3 == Put(a2, "last_used_date", today)
    IN  cleanup_old_daily_data(a3, t)
UsageRecord(analytics, t) ==
    LET today == StrfDate(DayOf(t))
        a1 == Put(analytics, "total_uses", Get(analytics, "total_uses", 0) + 1)
        daily_usage == Get(analytics, "daily_usage", EmptyDict)
        d1 == Put(daily_usage, today, Get(daily_usage, today, 0) + 1)
        a2 == Put(a1, "daily_usage", d1)
        a3 == Put(a2, "last_used_date", today)
    IN  cleanup_old_daily_data(a3, t)

track_usage ==
    Call("track_usage", "", UsageRecord(get_analytics_data, now), TRUE, EmptyDict)

\* track_signup_click without its guard
SignupUnsetAlways(analytics) == TRUE

\* `not analytics.get("signup_method")`
SignupUnset(analytics) == Get(analytics, "signup_method", NoneS) = NoneS

\* the record track_signup_click(method) saves
SignupRecord(analytics, method, t) ==
    IF SignupUnset(analytics)
    THEN Put(Put(analytics, "signup_method", method), "signup_date", IsoFormat(t))
    ELSE analytics

track_signup_click ==
    \E method \in SignupMethods :
        Call("track_signup_click", method,
             SignupRecord(get_analytics_data, method, now), TRUE, EmptyDict)

\* track_auth_button_click without its guard
AuthUnsetAlways(analytics) == TRUE

\* `not analytics.get("auth_button_clicked")`
AuthUnset(analytics) == Get(analytics, "auth_button_clicked", NoneS) = NoneS

track_auth_button_click ==
    \E button_type \in ButtonTypes :
        LET analytics == get_analytics_data
        IN  IF AuthUnset(analytics)
            THEN Call("track_auth_button_click", button_type,
                      Put(Put(analytics, "auth_button_clicked", button_type),
                          "auth_button_click_date", IsoFormat(now)),
                      TRUE, EmptyDict)
            ELSE Call("track_auth_button_click", button_type, analytics, FALSE,
                      EmptyDict)

\* `not analytics.get("has_logged_in")`
NotLoggedIn(analytics) == ~Get(analytics, "has_logged_in", FALSE)

track_login_detected ==
    LET analytics == get_analytics_data
    IN  IF NotLoggedIn(analytics)
        THEN Call("track_login_detected", "",
                  Put(Put(analytics, "has_logged_in", TRUE),
                      "first_login_date", IsoFormat(now)),
                  TRUE, EmptyDict)
        ELSE Call("track_login_detected", "", analytics, FALSE, EmptyDict)

is_user_logged_in ==
    LET analytics == get_analytics_data
    IN  Call("is_user_logged_in", "", analytics, FALSE,
             [value |-> Get(analytics, "has_logged_in", FALSE)])

\* `not analytics.get("onboarding_completed")`
NotOnboarded(analytics) == ~Get(analytics, "onboarding_completed", FALSE)

track_onboarding_completed ==
    LET analytics == get_analytics_data
    IN  IF NotOnboarded(analytics)
        THEN Call("track_onboarding_completed", "",
                  Put(analytics, "onboarding_completed", TRUE), TRUE, EmptyDict)
        ELSE Call("track_onboarding_completed", "", analytics, FALSE, EmptyDict)

\* track_tutorial_status without its guard
MayChangeStatusAlways(analytics) == TRUE

\* track_tutorial_status that only sets a status where there is none
MayChangeStatusOnce(analytics) ==
    Get(analytics, "tutorial_status", NoneS) = NoneS

\* `current != "completed"`
MayChangeStatus(analytics) ==
    Get(analytics, "tutorial_status", NoneS) # "completed"

track_tutorial_status ==
    \E status \in TutorialStatuses :
        LET analytics == get_analytics_data
        IN  IF MayChangeStatus(analytics)
            THEN Call("track_tutorial_status", status,
                      Put(analytics, "tutorial_status", status), TRUE, EmptyDict)
            ELSE Call("track_tutorial_status", status, analytics, FALSE, EmptyDict)

\* ord("/")
ChrSlash == 47

\* f"{current}/{total}", for one-digit numbers
StepString(current, total) == <<Digit(current), ChrSlash, Digit(total)>>

\* the record track_tutorial_step(current, total) saves
StepRecordForward(analytics, current, total) ==
    LET old == Get(analytics, "tutorial_current_step", NoneT)
    IN  IF old # NoneT /\ old[1] > Digit(current) THEN analytics
        ELSE Put(analytics, "tutorial_current_step", StepString(current, total))
StepRecord(analytics, current, total) ==
    Put(analytics, "tutorial_current_step", StepString(current, total))

track_tutorial_step ==
    \E step \in TutorialSteps :
        Call("track_tutorial_step", step,
             StepRecord(get_analytics_data, step[1], step[2]), TRUE, EmptyDict)

\* analytics[counter] = analytics.get(counter, 0) + 1
IncrementFromOne(analytics, counter) ==
    Put(analytics, counter, Get(analytics, counter, 1) + 1)
Increment(analytics, counter) ==
    Put(analytics, counter, Get(analytics, counter, 0) + 1)

track_quick_action_used ==
    Call("track_quick_action_used", "",
         Increment(get_analytics_data, "quick_action_usage_count"), TRUE, EmptyDict)

track_shortcut_used ==
    Call("track_shortcut_used", "",
         Increment(get_analytics_data, "shortcut_usage_count"), TRUE, EmptyDict)

\* rounding by truncation
RoundDown(num, den) == num \div den

\* round(num / den, 0) as Python rounds: to the nearest, ties to even
RoundHalfEven(num, den) ==
    LET q == num \div den
        r == num % den
    IN  IF 2 * r > den \/ (2 * r = den /\ q % 2 = 1) THEN q + 1 ELSE q

Max(a, b) == IF a >= b THEN a ELSE b

\* what get_retention_metrics() returns for the record at clock t;
\* retention_rate is given in hundredths (round(rate, 2) * 100)
RetentionMetrics(analytics, t) ==
    IF Get(analytics, "first_install_date", NoneT) = NoneT THEN EmptyDict
    ELSE LET first_install == FromIso(analytics["first_install_date"])
             days_since_install == (t - first_install) \div TicksPerDay
             daily_usage == Get(analytics, "daily_usage", EmptyDict)
             active_days == Cardinality(DOMAIN daily_usage)
             retention_rate ==
                 IF days_since_install > 0
                 THEN RoundHalfEven(active_days * 100 * 100,
                                    Max(days_since_install, 1))
                 ELSE 0
         IN  [days_since_install |-> days_since_install,
              active_days |-> active_days,
              total_uses |-> Get(analytics, "total_uses", 0),
              retention_rate |-> retention_rate,
              last_used |-> Get(analytics, "last_used_date", NoneT),
              has_logged_in |-> Get(analytics, "has_logged_in", FALSE),
              signup_method |-> Get(analytics, "signup_method", NoneS)]

get_retention_metrics_pruning ==
    LET analytics == get_analytics_data
    IN  Call("get_retention_metrics", "", cleanup_old_daily_data(analytics, now),
             TRUE, RetentionMetrics(analytics, now))
get_retention_metrics ==
    LET analytics == get_analytics_data
    IN  Call("get_retention_metrics", "", analytics, FALSE,
             RetentionMetrics(analytics, now))

\* ------------------------------------------------------------------ flush
\* should_send_analytics() at clock t
ShouldSendSameDay(analytics, t) ==
    LET last_sent == Get(analytics, "last_analytics_sent", NoneT)
    IN  IF last_sent = NoneT THEN TRUE
        ELSE DayOf(t) >= DayOf(FromIso(last_sent))
should_send_analytics(analytics, t) ==
    LET last_sent == Get(analytics, "last_analytics_sent", NoneT)
    IN  IF last_sent = NoneT THEN TRUE
        ELSE DayOf(t) > DayOf(FromIso(last_sent))

\* try_send_daily_analytics(): starts a _send thread when
\* should_send_analytics() says so
try_send_daily_analytics ==
    LET analytics == get_analytics_data
    IN  IF should_send_analytics(analytics, now)
        THEN \E i \in ThreadIds :
                 /\ threads[i].pc = "none"
                 /\ \A j \in ThreadIds : j < i => threads[j].pc # "none"
                 /\ CallWith("try_send_daily_analytics", "", analytics, FALSE,
                             EmptyDict,
                             [threads EXCEPT ![i] = [pc |-> "start",
                                                     snap |-> EmptyDict,
                                                     resp |-> NoneS]])
        ELSE Call("try_send_daily_analytics", "", analytics, FALSE, EmptyDict)

\* _send's test of config.get("analytics_endpoint")
HasEndpointAlways == TRUE
HasEndpoint == endpoint

\* _send up to the request: returns when no endpoint is configured, else
\* reads the record and posts the payload built from it
SendRequest(i) ==
    /\ threads[i].pc = "start"
    /\ IF HasEndpoint
       THEN /\ threads' = [threads EXCEPT ![i] =
                              [pc |-> "post", snap |-> get_analytics_data,
                               resp |-> NoneS]]
            /\ posts' = Append(posts, DayOf(now))
       ELSE /\ threads' = [threads EXCEPT ![i] = NoThread]
            /\ UNCHANGED posts
    /\ UNCHANGED <<store, endpoint, now, ui, dirty, calls, advances, guiVars>>

\* what urlopen can give: a 200, another status it does not raise on, or an
\* exception (URLError, HTTPError, timeout)
Responses == {"200", "201", "URLError"}

\* _send's test of the response: response.status == 200
AcceptedAny(resp) == TRUE
Accepted(resp) == resp = "200"

\* _send at the response: a 200 goes on to write; any other status falls
\* through and an exception is swallowed, and the thread ends
SendResponse(i) ==
    /\ threads[i].pc = "post"
    /\ \E resp \in Responses :
           threads' = [threads EXCEPT ![i] =
                          IF Accepted(resp)
                          THEN [pc |-> "write", snap |-> threads[i].snap,
                                resp |-> resp]
                          ELSE NoThread]
    /\ UNCHANGED <<store, endpoint, now, ui, dirty, calls, advances, posts, guiVars>>

\* the record _send saves after a 200 response
SentRecordMerged(analytics, t) ==
    Put(store, "last_analytics_sent", IsoFormat(t))
SentRecord(analytics, t) == Put(analytics, "last_analytics_sent", IsoFormat(t))

\* _send after a 200: saves the record it read before the request, with
\* last_analytics_sent, and the thread ends
SaveSent(i) ==
    /\ threads[i].pc = "write"
    /\ store' = SentRecord(threads[i].snap, now)
    /\ dirty' = TRUE
    /\ threads' = [threads EXCEPT ![i] = NoThread]
    /\ UNCHANGED <<endpoint, now, ui, calls, advances, posts, guiVars>>

\* --------------------------------------------------------------- the clock
Tick ==
    /\ advances < MaxAdvance
    /\ \E j \in ClockJumps : now' = now + j
    /\ advances' = advances + 1
    /\ UNCHANGED <<store, endpoint, ui, threads, dirty, calls, posts, guiVars>>

Next ==
    \/ init_analytics
    \/ track_usage
    \/ track_signup_click
    \/ track_auth_button_click
    \/ track_login_detected
    \/ is_user_logged_in
    \/ track_onboarding_completed
    \/ track_tutorial_status
    \/ track_tutorial_step
    \/ track_quick_action_used
    \/ track_shortcut_used
    \/ get_retention_metrics
    \/ try_send_daily_analytics
    \/ save_analytics_data
    \/ \E i \in ThreadIds : SendRequest(i)
    \/ \E i \in ThreadIds : SendResponse(i)
    \/ \E i \in ThreadIds : SaveSent(i)
    \/ Tick

Spec == Init /\ [][Next]_vars

\* ------------------------------------------- records for retention metrics
Min(S) == CHOOSE x \in S : \A y \in S : x <= y

\* the record after track_usage() ran once on each day of `days` (offsets from
\* the day of t0, at the time of day of t0), in calendar order
RECURSIVE UsedOn(_, _, _)
UsedOn(analytics, days, t0) ==
    IF days = {} THEN analytics
    ELSE LET d == Min(days)
         IN  UsedOn(UsageRecord(analytics, t0 + d * TicksPerDay), days \ {d}, t0)

\* An installation of up to MaxSinceInstall days ago that was used on up to
\* MaxActive days since: init_analytics() at t0, then the track_usage() calls.
InitMetrics ==
    /\ \E d \in 0 .. MaxSinceInstall, tod \in 0 .. TicksPerDay - 1,
          late \in 0 .. TicksPerDay - 1 :
          \E days \in SUBSET (0 .. d) :
              /\ Cardinality(days) <= MaxActive
              /\ ~(late < tod /\ (d = 0 \/ d \in days))
              /\ store = UsedOn(InitRecord(EmptyDict, EmptyDict, StartTime + tod),
                                days, StartTime + tod)
              /\ now = StartTime + d * TicksPerDay + late
    /\ endpoint = FALSE
    /\ ui = NoCall
    /\ threads = [i \in ThreadIds |-> NoThread]
    /\ dirty = FALSE
    /\ calls = 0
    /\ advances = 0
    /\ posts = <<>>
    /\ GuiIdle

NextMetrics == get_retention_metrics

SpecMetrics == InitMetrics /\ [][NextMetrics]_vars

\* ------------------------------------------------- records for flush gating
\* An installation whose record was last uploaded up to MaxDaysSinceSent days
\* ago, or never: init_analytics() at `sent`, then possibly a flush that got
\* its 200 at `sent`; an endpoint is configured.
InitGating ==
    /\ \E tod \in 0 .. TicksPerDay - 1,
          k \in 0 .. MaxDaysSinceSent * TicksPerDay, uploaded \in BOOLEAN :
          LET sent == StartTime + tod
              installed == InitRecord(EmptyDict, EmptyDict, sent)
          IN  /\ store = IF uploaded THEN SentRecord(installed, sent)
                         ELSE installed
              /\ now = sent + k
    /\ endpoint = TRUE
    /\ ui = NoCall
    /\ threads = [i \in ThreadIds |-> NoThread]
    /\ dirty = FALSE
    /\ calls = 0
    /\ advances = 0
    /\ posts = <<>>
    /\ GuiIdle

NextGating ==
    \/ try_send_daily_analytics
    \/ \E i \in ThreadIds : SendRequest(i)
    \/ \E i \in ThreadIds : SendResponse(i)
    \/ \E i \in ThreadIds : SaveSent(i)

SpecGating == InitGating /\ [][NextGating]_vars

\* ------------------------------------------- a failing configuration store
LedgerOps ==
    {"init_analytics", "track_usage", "track_signup_click",
     "track_auth_button_click", "track_login_detected", "is_user_logged_in",
     "track_onboarding_completed", "track_tutorial_status",
     "track_tutorial_step", "track_quick_action_used", "track_shortcut_used",
     "get_retention_metrics", "try_send_daily_analytics"}

\* getConfig raises in the get_analytics_data() of a ledger call: no operation
\* catches it, so the call ends by raising to its caller
GetConfigRaises ==
    /\ UiFree
    /\ calls < MaxCalls
    /\ calls' = calls + 1
    /\ \E op \in LedgerOps :
           ui' = [pc |-> "raised", op |-> op, arg |-> "", read |-> EmptyDict,
                  rec |-> EmptyDict, ret |-> EmptyDict, t |-> now,
                  seq |-> ~dirty]
    /\ dirty' = FALSE
    /\ UNCHANGED <<store, endpoint, now, threads, advances, posts, guiVars>>

\* getConfig or writeConfig raises in the save_analytics_data() of a ledger
\* call: nothing is stored and the call ends by raising to its caller
SaveRaises ==
    /\ ui.pc = "save"
    /\ ui' = [ui EXCEPT !.pc = "raised"]
    /\ UNCHANGED <<store, endpoint, now, threads, dirty, calls, advances, posts, guiVars>>

\* getConfig or writeConfig raises in _send, before the request or in the
\* save after a 200: the except clause swallows it and the thread ends
SendConfigRaises(i) ==
    /\ threads[i].pc \in {"start", "write"}
    /\ threads' = [threads EXCEPT ![i] = NoThread]
    /\ UNCHANGED <<store, endpoint, now, ui, dirty, calls, advances, posts, guiVars>>

NextFaulty ==
    \/ Next
    \/ GetConfigRaises
    \/ SaveRaises
    \/ \E i \in ThreadIds : SendConfigRaises(i)

SpecFaulty == Init /\ [][NextFaulty]_vars

\* ------------------------------------------- records with missing fields
\* the record after every operation ran once at StartTime and a flush got
\* its 200
FullRecord ==
    LET t == StartTime
        locale_info == CHOOSE li \in LocaleInfos : li # EmptyDict
        r1 == UsageRecord(InitRecord(EmptyDict, locale_info, t), t)
        r2 == SignupRecord(r1, "organic", t)
        r3 == Put(Put(r2, "auth_button_clicked", "signup"),
                  "auth_button_click_date", IsoFormat(t))
        r4 == Put(Put(r3, "has_logged_in", TRUE), "first_login_date", IsoFormat(t))
        r5 == Put(r4, "onboarding_completed", TRUE)
        r6 == Put(r5, "tutorial_status", "skip")
        r7 == Put(r6, "tutorial_current_step", StepString(1, 2))
        r8 == Increment(Increment(r7, "quick_action_usage_count"),
                        "shortcut_usage_count")
    IN  SentRecord(r8, t)

\* the fields the operations read with .get or test with `in`
ReadFields ==
    {"first_install_date", "total_uses", "daily_usage", "last_used_date",
     "signup_method", "auth_button_clicked", "has_logged_in",
     "onboarding_completed", "tutorial_status", "quick_action_usage_count",
     "shortcut_usage_count", "last_analytics_sent"}

Restrict(d, keys) == [k \in keys \cap DOMAIN d |-> d[k]]

\* A persisted record with any subset of the fields the operations read
\* missing, and the other fields either all there or all missing; the empty
\* record is among them.
InitPartial ==
    /\ \E present \in SUBSET ReadFields, others \in BOOLEAN :
           store = Restrict(FullRecord,
                            present \cup (IF others
                                          THEN DOMAIN FullRecord \ ReadFields
                                          ELSE {}))
    /\ now = StartTime + 1
    /\ endpoint = TRUE
    /\ ui = NoCall
    /\ threads = [i \in ThreadIds |-> NoThread]
    /\ dirty = FALSE
    /\ calls = 0
    /\ advances = 0
    /\ posts = <<>>
    /\ GuiIdle

\* one ledger call on that record
NextPartial ==
    \/ /\ calls = 0
       /\ \/ init_analytics
          \/ track_usage
          \/ track_signup_click
          \/ track_auth_button_click
          \/ track_login_detected
          \/ is_user_logged_in
          \/ track_onboarding_completed
          \/ track_tutorial_status
          \/ track_tutorial_step
          \/ track_quick_action_used
          \/ track_shortcut_used
          \/ get_retention_metrics
          \/ try_send_daily_analytics
    \/ save_analytics_data

SpecPartial == InitPartial /\ [][NextPartial]_vars

\* ---------------------------------------------------- the tutorial checklist
\* the ledger as constructed, while the widgets run
LedgerIdle ==
    /\ store = EmptyDict
    /\ endpoint = FALSE
    /\ now = StartTime
    /\ ui = NoCall
    /\ threads = [i \in ThreadIds |-> NoThread]
    /\ dirty = FALSE
    /\ calls = 0
    /\ advances = 0
    /\ posts = <<>>

\* self.sections of setup_ui: the task ids of each section, by section index
SectionTasks ==
    [section_idx \in 0 .. 3 |->
        CASE section_idx = 0 -> {0}
          [] section_idx = 1 -> {1, 2}
          [] section_idx = 2 -> {3}
          [] section_idx = 3 -> {4}]

SectionIds == DOMAIN SectionTasks
TaskIds == UNION {SectionTasks[section_idx] : section_idx \in SectionIds}

\* TutorialChecklist(): every section collapsed with completed_count 0 and
\* total_count its number of tasks, no task completed, and the timer that
\* expands the first section pending
NewChecklist ==
    [collapsed |-> [section_idx \in SectionIds |-> TRUE],
     completed_count |-> [section_idx \in SectionIds |-> 0],
     total_count |-> [section_idx \in SectionIds |->
                         Cardinality(SectionTasks[section_idx])],
     completed |-> [task_id \in TaskIds |-> FALSE],
     expand_pending |-> TRUE]

\* the manager has a checklist
HasChecklist == manager.checklist # <<>>

\* section_data["collapsed"] of every section after toggle_section(section_idx)
ToggledAlone(collapsed, section_idx) ==
    [idx \in SectionIds |->
        IF idx = section_idx THEN ~collapsed[section_idx] ELSE collapsed[idx]]
Toggled(collapsed, section_idx) ==
    [idx \in SectionIds |->
        IF idx = section_idx THEN ~collapsed[section_idx] ELSE TRUE]

\* a click on a section's button: toggle_section(section_idx)
toggle_section ==
    /\ HasChecklist
    /\ \E section_idx \in SectionIds :
           manager' = [manager EXCEPT
               !.checklist[1].collapsed = Toggled(@, section_idx)]
    /\ UNCHANGED <<ledgerVars, recorder, accordion>>

\* the QTimer.singleShot(100, ...) of setup_ui fires: toggle_section(0)
ExpandFirstSection ==
    /\ HasChecklist
    /\ manager.checklist[1].expand_pending
    /\ manager' = [manager EXCEPT
           !.checklist[1].collapsed = Toggled(@, 0),
           !.checklist[1].expand_pending = FALSE]
    /\ UNCHANGED <<ledgerVars, recorder, accordion>>

\* the checklist after complete_task(task_id)
complete_task(checklist, task_id) ==
    IF task_id \in TaskIds /\ ~checklist.completed[task_id]
    THEN LET section_idx ==
                 CHOOSE idx \in SectionIds : task_id \in SectionTasks[idx]
         IN  [checklist EXCEPT !.completed[task_id] = TRUE,
                               !.completed_count[section_idx] = @ + 1]
    ELSE checklist

\* TutorialManager.start(): a new checklist; completed_tasks is not touched
start ==
    /\ manager' = [manager EXCEPT !.checklist = <<NewChecklist>>]
    /\ UNCHANGED <<ledgerVars, recorder, accordion>>

\* TutorialManager.complete_tutorial(): drops the checklist
complete_tutorial ==
    /\ manager' = [manager EXCEPT !.checklist = <<>>]
    /\ UNCHANGED <<ledgerVars, recorder, accordion>>

\* the events of the add-on; "template_used" is one that on_event does not map
EventNames ==
    {"panel_opened", "shortcut_used", "text_highlighted", "settings_opened",
     "template_used"}

\* event_to_task.get(event_name), with -1 for None
event_to_task(event_name) ==
    CASE event_name = "panel_opened" -> 0
      [] event_name = "shortcut_used" -> 2
      [] event_name = "text_highlighted" -> 3
      [] event_name = "settings_opened" -> 4
      [] OTHER -> -1

\* TutorialManager.on_event(event_name)
on_event ==
    /\ \E event_name \in EventNames :
           LET task_index == event_to_task(event_name)
           IN  IF HasChecklist /\ task_index # -1
                  /\ task_index \notin manager.completed_tasks
               THEN LET also == task_index = 2 /\ 1 \notin manager.completed_tasks
                        c1 == complete_task(manager.checklist[1], task_index)
                    IN  manager' =
                            [checklist |->
                                 <<IF also THEN complete_task(c1, 1) ELSE c1>>,
                             completed_tasks |->
                                 manager.completed_tasks \cup {task_index}
                                     \cup (IF also THEN {1} ELSE {})]
               ELSE UNCHANGED manager
    /\ UNCHANGED <<ledgerVars, recorder, accordion>>

InitTutorial == LedgerIdle /\ GuiIdle

NextTutorial ==
    \/ start
    \/ toggle_section
    \/ ExpandFirstSection
    \/ on_event
    \/ complete_tutorial

SpecTutorial == InitTutorial /\ [][NextTutorial]_vars

\* ---------------------------------------------------- the shortcut recorder
\* the shortcuts that can be recorded
Targets == {"add_to_chat", "ask_question"}

\* the keys of the keyboard, by the name keyPressEvent gives them
KeyNames == {"Control", "Shift", "S"}

\* the elements of a list
Elems(list) == {list[k] : k \in DOMAIN list}

\* the list without its k-th element
Without(list, k) == SubSeq(list, 1, k - 1) \o SubSeq(list, k + 1, Len(list))

\* a click on a shortcut button: start_recording(target)
start_recording ==
    /\ recorder.recordings < MaxRecordings
    /\ \E target \in Targets :
           recorder' = [recorder EXCEPT !.recording_target = target,
                                        !.pressed_keys = <<>>,
                                        !.recordings = @ + 1]
    /\ UNCHANGED <<ledgerVars, manager, accordion>>

\* a key goes down: keyPressEvent appends its name while recording, unless
\* it is there already
keyPressEvent ==
    /\ \E key_name \in KeyNames \ recorder.held :
           recorder' = [recorder EXCEPT
               !.held = @ \cup {key_name},
               !.pressed_keys =
                   IF recorder.recording_target # NoneS
                      /\ key_name \notin Elems(recorder.pressed_keys)
                   THEN Append(@, key_name)
                   ELSE @]
    /\ UNCHANGED <<ledgerVars, manager, accordion>>

\* a key goes up: keyReleaseEvent schedules check_recording_complete while
\* recording
keyReleaseEvent ==
    /\ \E key_name \in recorder.held :
           /\ recorder.recording_target # NoneS => Len(recorder.timers) < MaxTimers
           /\ recorder' = [recorder EXCEPT
                  !.held = @ \ {key_name},
                  !.timers = IF recorder.recording_target # NoneS
                             THEN Append(@, recorder.recordings)
                             ELSE @]
    /\ UNCHANGED <<ledgerVars, manager, accordion>>

\* the shortcuts after check_recording_complete
Finalized(shortcuts, target, pressed_keys) ==
    IF pressed_keys # <<>> THEN [shortcuts EXCEPT ![target] = pressed_keys]
    ELSE shortcuts

\* a timer fires: check_recording_complete()
check_recording_complete ==
    /\ \E k \in DOMAIN recorder.timers :
           recorder' =
               IF recorder.recording_target = NoneS
               THEN [recorder EXCEPT !.timers = Without(@, k)]
               ELSE [recorder EXCEPT
                        !.timers = Without(@, k),
                        !.shortcuts = Finalized(@, recorder.recording_target,
                                                recorder.pressed_keys),
                        !.recording_target = NoneS]
    /\ UNCHANGED <<ledgerVars, manager, accordion>>

InitRecorder == LedgerIdle /\ GuiIdle

NextRecorder ==
    \/ start_recording
    \/ keyPressEvent
    \/ keyReleaseEvent
    \/ check_recording_complete

SpecRecorder == InitRecorder /\ [][NextRecorder]_vars

\* ------------------------------------------------- the onboarding accordion
\* the accordion items, each with its one task
ItemIds == 0 .. 3

\* event_mapping of handle_event: the item whose task the event completes,
\* -1 for an event that is not in the mapping
event_mapping(event_name) ==
    CASE event_name = "panel_opened" -> 0
      [] event_name = "shortcut_used" -> 1
      [] event_name = "text_highlighted" -> 2
      [] event_name = "settings_opened" -> 3
      [] OTHER -> -1

\* update_progress(): schedules complete_onboarding whenever it finds every
\* task checked
update_progress(acc) ==
    IF \A item_index \in ItemIds : acc.checked[item_index]
    THEN [acc EXCEPT !.complete_timers = @ + 1]
    ELSE acc

\* setChecked(state) on the checkbox of an item: stateChanged, and through
\* on_task_changed and toggled update_progress, only when the state changes
setChecked(acc, item_index, state) ==
    IF acc.checked[item_index] # state
    THEN update_progress([acc EXCEPT !.checked[item_index] = state])
    ELSE acc

\* mark_task_complete(item_index, 0): checks the box, then update_progress()
mark_task_complete(acc, item_index) ==
    update_progress(setChecked(acc, item_index, TRUE))

\* no timer kind has more than MaxTimers pending
TimersWithinBound(acc) ==
    /\ acc.progress_timers <= MaxTimers
    /\ acc.complete_timers <= MaxTimers
    /\ acc.replace_timers <= MaxTimers
    /\ acc.tutorial_timers <= MaxTimers

\* handle_event(event_name)
handle_event ==
    /\ \E event_name \in EventNames :
           LET item_index == event_mapping(event_name)
           IN  accordion' = IF item_index \in ItemIds
                            THEN mark_task_complete(accordion, item_index)
                            ELSE accordion
    /\ TimersWithinBound(accordion')
    /\ UNCHANGED <<ledgerVars, manager, recorder>>

\* a click on the checkbox of an item: stateChanged -> on_task_changed
on_task_changed ==
    /\ \E item_index \in ItemIds :
           accordion' = setChecked(accordion, item_index,
                                   ~accordion.checked[item_index])
    /\ TimersWithinBound(accordion')
    /\ UNCHANGED <<ledgerVars, manager, recorder>>

\* resizeEvent: update_progress in 10 ms
resizeEvent ==
    /\ accordion' = [accordion EXCEPT !.progress_timers = @ + 1]
    /\ TimersWithinBound(accordion')
    /\ UNCHANGED <<ledgerVars, manager, recorder>>

\* the timer of resizeEvent fires: update_progress()
ProgressTimer ==
    /\ accordion.progress_timers > 0
    /\ accordion' = update_progress([accordion EXCEPT !.progress_timers = @ - 1])
    /\ TimersWithinBound(accordion')
    /\ UNCHANGED <<ledgerVars, manager, recorder>>

\* the timer of update_progress fires: complete_onboarding()
complete_onboarding ==
    /\ accordion.complete_timers > 0
    /\ accordion.completions < MaxRuns
    /\ accordion' = [accordion EXCEPT !.complete_timers = @ - 1,
                                      !.completions = @ + 1,
                                      !.replace_timers = @ + 1]
    /\ TimersWithinBound(accordion')
    /\ UNCHANGED <<ledgerVars, manager, recorder>>

\* the timer of complete_onboarding fires: _replace_with_panel()
_replace_with_panel ==
    /\ accordion.replace_timers > 0
    /\ accordion.replacements < MaxRuns
    /\ accordion' = [accordion EXCEPT !.replace_timers = @ - 1,
                                      !.replacements = @ + 1,
                                      !.tutorial_timers = @ + 1]
    /\ TimersWithinBound(accordion')
    /\ UNCHANGED <<ledgerVars, manager, recorder>>

\* the timer of _replace_with_panel fires: start_tutorial()
start_tutorial ==
    /\ accordion.tutorial_timers > 0
    /\ accordion' = [accordion EXCEPT !.tutorial_timers = @ - 1]
    /\ manager' = [manager EXCEPT !.checklist = <<NewChecklist>>]
    /\ UNCHANGED <<ledgerVars, recorder>>

InitAccordion == LedgerIdle /\ GuiIdle

NextAccordion ==
    \/ handle_event
    \/ on_task_changed
    \/ resizeEvent
    \/ ProgressTimer
    \/ complete_onboarding
    \/ _replace_with_panel
    \/ start_tutorial

SpecAccordion == InitAccordion /\ [][NextAccordion]_vars

\* ================================================================= claims
\* The UI thread has finished a call of `op` and no flush has written the
\* store since that call began: the store is as the call left it.
After(op) == ui.op = op /\ ui.pc = "idle" /\ ~dirty

\* This step is the UI thread entering a call of `op`.
CallStarts(op) == calls' = calls + 1 /\ ui'.op = op

\* the record holds a value other than None under `field`
IsSet(rec, field, none) == Get(rec, field, none) # none

InstallFields == {"first_install_date", "platform", "locale", "timezone"}
Counters == {"total_uses", "quick_action_usage_count", "shortcut_usage_count"}

\* C1: an init_analytics() call made right after an init_analytics() call
\* (no other call and no flush write in between, whatever time has passed)
\* saves nothing and leaves every field of the record, first_install_date
\* included, as the first call left it.
C1_InitTwiceSameAsOnce ==
    [][(After("init_analytics") /\ CallStarts("init_analytics"))
        => /\ ui'.pc = "idle"
           /\ store' = store
           /\ "first_install_date" \in DOMAIN store'
           /\ (~IsSet(ui.read, "first_install_date", NoneT)
                  => store'["first_install_date"] = IsoFormat(ui.t))]_vars

\* C1 witness: a second init_analytics() call, made later than the first,
\* has returned.
C1_Witness ==
    /\ After("init_analytics")
    /\ calls = 2
    /\ "first_install_date" \in DOMAIN ui.read
    /\ store = ui.read
    /\ FromIso(store["first_install_date"]) < ui.t

\* C2: total_uses, quick_action_usage_count and shortcut_usage_count never
\* decrease in the stored record, over any step of the ledger (calls, saves and
\* flush completions), starting from the empty record.
C2_CountersNeverDecrease ==
    [][\A c \in Counters : Get(store', c, 0) >= Get(store, c, 0)]_vars

\* C3: once first_install_date is in the stored record, no step changes or
\* removes first_install_date, platform, locale or timezone.
C3_InstallMetadataWrittenOnce ==
    [][("first_install_date" \in DOMAIN store)
        => \A f \in InstallFields :
               f \in DOMAIN store => (f \in DOMAIN store' /\ store'[f] = store[f])]_vars

\* C4: first write wins for signup_method.  A track_signup_click(m1) call on a
\* record with signup_method unset leaves signup_method = m1 and signup_date =
\* the time of that call, and a track_signup_click(m2) call on a record with
\* signup_method set leaves both as it read them; so after m1 then m2 the
\* stored method is m1 with the first call's timestamp.
C4_SignupFirstWriteWins ==
    After("track_signup_click")
    => IF ~IsSet(ui.read, "signup_method", NoneS)
       THEN /\ store["signup_method"] = ui.arg
            /\ store["signup_date"] = IsoFormat(ui.t)
       ELSE /\ store["signup_method"] = ui.read["signup_method"]
            /\ Get(store, "signup_date", NoneT) = Get(ui.read, "signup_date", NoneT)

\* C4 witness: a second track_signup_click, with the other method and at a
\* later time than the first, has returned.
C4_Witness ==
    /\ After("track_signup_click")
    /\ calls = 2
    /\ IsSet(ui.read, "signup_method", NoneS)
    /\ "signup_date" \in DOMAIN ui.read
    /\ ui.arg # ui.read["signup_method"]
    /\ FromIso(ui.read["signup_date"]) < ui.t

\* C5: a track_auth_button_click call made when a button type is stored, with
\* any argument, leaves auth_button_clicked and auth_button_click_date as they
\* were.
C5_AuthButtonFirstWriteWins ==
    (After("track_auth_button_click") /\ IsSet(ui.read, "auth_button_clicked", NoneS))
    => /\ store["auth_button_clicked"] = ui.read["auth_button_clicked"]
       /\ Get(store, "auth_button_click_date", NoneT)
              = Get(ui.read, "auth_button_click_date", NoneT)

\* C5 witness: a second track_auth_button_click, with the other button type
\* and at a later time than the first, has returned.
C5_Witness ==
    /\ After("track_auth_button_click")
    /\ calls = 2
    /\ IsSet(ui.read, "auth_button_clicked", NoneS)
    /\ "auth_button_click_date" \in DOMAIN ui.read
    /\ ui.arg # ui.read["auth_button_clicked"]
    /\ FromIso(ui.read["auth_button_click_date"]) < ui.t

\* C6: a track_tutorial_status(s) call made when the stored tutorial_status is
\* "completed" leaves it "completed", for every s.
C6_CompletedIsSticky ==
    (After("track_tutorial_status")
     /\ Get(ui.read, "tutorial_status", NoneS) = "completed")
    => Get(store, "tutorial_status", NoneS) = "completed"

\* C6 witness: track_tutorial_status("skip") has returned after a call that
\* read status "completed".
C6_Witness ==
    /\ After("track_tutorial_status")
    /\ Get(ui.read, "tutorial_status", NoneS) = "completed"
    /\ ui.arg = "skip"

LoggedIn(rec) == Get(rec, "has_logged_in", FALSE)

\* C7: has_logged_in never goes from true back to false in the stored record;
\* the track_login_detected call whose save turns it true stores its own time
\* as first_login_date; a track_login_detected call made when it is true saves
\* nothing.
C7_LoginIsOneWay ==
    [][/\ LoggedIn(store) => LoggedIn(store')
       /\ (ui.op = "track_login_detected" /\ ui.pc = "save" /\ ui'.pc = "idle")
              => (LoggedIn(store') /\ store'["first_login_date"] = IsoFormat(ui.t))
       /\ (CallStarts("track_login_detected") /\ LoggedIn(store))
              => (ui'.pc = "idle" /\ store' = store)]_vars

Onboarded(rec) == Get(rec, "onboarding_completed", FALSE)

\* C8: onboarding_completed never goes from true back to false in the stored
\* record, and a track_onboarding_completed call made when it is true saves
\* nothing.
C8_OnboardingIsOneWay ==
    [][/\ Onboarded(store) => Onboarded(store')
       /\ (CallStarts("track_onboarding_completed") /\ Onboarded(store))
              => (ui'.pc = "idle" /\ store' = store)]_vars

\* C9: after track_usage() ran on day D, daily_usage has no key dated before
\* D - 90 days, and every key the call read that is dated on or after D - 90
\* days, other than D itself, is still there with the count it had.
C9_RetentionPruning ==
    After("track_usage")
    => LET D == DayOf(ui.t)
           before == Get(ui.read, "daily_usage", EmptyDict)
           after == store["daily_usage"]
       IN  /\ \A k \in DOMAIN after : ParseDate(k) >= D - RetentionDays
           /\ \A k \in DOMAIN before :
                  (ParseDate(k) >= D - RetentionDays /\ ParseDate(k) # D)
                  => (k \in DOMAIN after /\ after[k] = before[k])

\* C9 witness: track_usage() has run on a record that held a key dated before
\* the retention window, and the key is gone.
C9_Witness ==
    /\ After("track_usage")
    /\ \E k \in DOMAIN Get(ui.read, "daily_usage", EmptyDict) :
           /\ ParseDate(k) < DayOf(ui.t) - RetentionDays
           /\ k \notin DOMAIN store["daily_usage"]

Abs(x) == IF x >= 0 THEN x ELSE -x

\* get_retention_metrics() has returned a result for a record with an install
\* date, and the result counts the days since the install and the active days
\* right: first_install_date is the timestamp of a moment days_since_install
\* whole days and less than one day more before the call.
MetricsCounted ==
    LET m == ui.ret
    IN  /\ m.days_since_install >= 0
        /\ \E r \in 0 .. TicksPerDay - 1 :
               IsoFormat(ui.t - m.days_since_install * TicksPerDay - r)
                   = ui.read["first_install_date"]
        /\ m.active_days = Cardinality(DOMAIN Get(ui.read, "daily_usage", EmptyDict))

MetricsReturned ==
    After("get_retention_metrics") /\ IsSet(ui.read, "first_install_date", NoneT)

\* C10, as claimed: days_since_install and active_days as above, and
\* retention_rate is exactly 100 * active_days / days_since_install when
\* days_since_install > 0 and 0 otherwise (retention_rate is held in hundredths).
C10_MetricsExact ==
    MetricsReturned
    => /\ MetricsCounted
       /\ IF ui.ret.days_since_install > 0
          THEN ui.ret.retention_rate * ui.ret.days_since_install
                   = 100 * 100 * ui.ret.active_days
          ELSE ui.ret.retention_rate = 0

\* C10, amended: days_since_install and active_days as above, and
\* retention_rate is 100 * active_days / days_since_install rounded to two
\* decimal places (the nearest hundredth) when days_since_install > 0 and 0
\* otherwise; install 10 days ago with 3 date keys gives 10, 3 and 30.00.
C10_MetricsRounded ==
    MetricsReturned
    => /\ MetricsCounted
       /\ IF ui.ret.days_since_install > 0
          THEN 2 * Abs(ui.ret.retention_rate * ui.ret.days_since_install
                           - 100 * 100 * ui.ret.active_days)
                   <= ui.ret.days_since_install
          ELSE ui.ret.retention_rate = 0

\* C10 witness: the metrics of a record installed 10 days ago with 3 date keys
\* are 10, 3 and 30.00.
C10_Witness ==
    /\ MetricsReturned
    /\ ui.ret.days_since_install = 10
    /\ ui.ret.active_days = 3
    /\ ui.ret.retention_rate = 3000

\* ------------------------------------------------------------- the flush
LastSent(rec) == Get(rec, "last_analytics_sent", NoneT)

\* the isoformat string `stamp` carries the date of day `day`
DatedOn(stamp, day) == stamp # NoneT /\ SubSeq(stamp, 1, 10) = StrfDate(day)

\* the threads this step starts
StartedNow ==
    {i \in ThreadIds : threads[i].pc = "none" /\ threads'[i].pc = "start"}

\* _send threads between start and completion
InFlight == {i \in ThreadIds : threads[i].pc # "none"}

\* C11: with an endpoint configured, a try_send_daily_analytics() call starts
\* no upload when last_analytics_sent carries today's date, and starts exactly
\* one when it is absent or carries yesterday's date; an upload thread sends
\* one POST and no POST is sent otherwise.
C11_FlushGating ==
    [][/\ (CallStarts("try_send_daily_analytics") /\ endpoint)
           => /\ DatedOn(LastSent(store), DayOf(now)) => threads' = threads
              /\ (LastSent(store) = NoneT
                      \/ DatedOn(LastSent(store), DayOf(now) - 1))
                  => /\ Cardinality(StartedNow) = 1
                     /\ \A i \in ThreadIds \ StartedNow :
                            threads'[i] = threads[i]
       /\ posts' # posts
           => /\ Len(posts') = Len(posts) + 1
              /\ \E i \in ThreadIds :
                     threads[i].pc = "start" /\ threads'[i].pc = "post"]_vars

\* C11 witness: a call that read yesterday's last_analytics_sent has returned
\* and its one upload has been posted.
C11_Witness ==
    /\ ui.op = "try_send_daily_analytics"
    /\ ui.pc = "idle"
    /\ calls = 1
    /\ DatedOn(LastSent(ui.read), DayOf(ui.t) - 1)
    /\ Cardinality(InFlight) = 1
    /\ posts = <<DayOf(ui.t)>>

\* this step is taken by a _send thread
ThreadStep == threads' # threads /\ calls' = calls

\* this step is thread i writing the store after a 200 response
WriteAfter200(i) ==
    threads[i].pc = "write" /\ threads[i].resp = "200" /\ threads'[i].pc = "none"

\* C12: a flush whose upload fails (an exception, or a status other than 200)
\* writes nothing: every step of a _send thread other than the write that
\* follows a 200 response leaves the stored record, last_analytics_sent
\* included, and the UI thread as they were.
C12_FailedFlushWritesNothing ==
    [][(ThreadStep /\ ~(\E i \in ThreadIds : WriteAfter200(i)))
           => (store' = store /\ ui' = ui)]_vars

\* C12 witness: the one upload of a flush on the empty record was posted and
\* failed; the thread has ended and the record is as try_send_daily_analytics()
\* read it, without last_analytics_sent.
C12_Witness ==
    /\ ui.op = "try_send_daily_analytics"
    /\ calls = 1
    /\ Len(posts) = 1
    /\ InFlight = {}
    /\ store = ui.read
    /\ LastSent(store) = NoneT

C14_OneFlushInFlight == Cardinality(InFlight) <= 1

\* C15: the network flush happens at most once per calendar day: whatever the
\* try_send_daily_analytics() calls and their outcomes, no two HTTP POSTs are
\* sent on the same day, so a failed attempt is not retried that day.
C15_OnePostPerDay ==
    \A j, k \in DOMAIN posts : j # k => posts[j] # posts[k]

\* C16: a flush and a UI mutation race with last write wins: the write after
\* a 200 stores the record the thread read before the request, plus
\* last_analytics_sent, whatever was saved in between; a total_uses increment
\* saved between that read and the write is lost from the stored record.
C16_FlushWritesItsSnapshot ==
    [][\A i \in ThreadIds :
           WriteAfter200(i)
           => /\ DOMAIN store' = DOMAIN threads[i].snap \cup {"last_analytics_sent"}
              /\ \A f \in DOMAIN threads[i].snap \ {"last_analytics_sent"} :
                     store'[f] = threads[i].snap[f]
              /\ Get(store', "total_uses", 0) = Get(threads[i].snap, "total_uses", 0)]_vars

\* C16 witness: track_usage() saved its increment, then a flush that had read
\* the record before that save wrote it back: the stored total_uses is below
\* the one track_usage() saved.
C16_Witness ==
    /\ ui.op = "track_usage"
    /\ ui.pc = "idle"
    /\ dirty
    /\ InFlight = {}
    /\ LastSent(store) # NoneT
    /\ Get(store, "total_uses", 0) < ui.rec["total_uses"]

\* C17: a flush never blocks the caller: while a _send thread is in flight,
\* however long the network takes, the UI thread is either between calls, and
\* then ledger operations can be called, or in a call, and then its save can
\* complete.
C17_FlushNeverBlocks ==
    InFlight # {}
    => /\ (ui.pc = "idle" /\ calls < MaxCalls)
           => /\ ENABLED is_user_logged_in
              /\ ENABLED track_onboarding_completed
              /\ ENABLED track_tutorial_status
              /\ ENABLED track_tutorial_step
              /\ ENABLED track_quick_action_used
              /\ ENABLED track_shortcut_used
       /\ ui.pc # "idle" => ENABLED save_analytics_data

\* C17 witness: with the request of a flush posted and not yet answered,
\* track_usage() was called and has saved; the thread holds the record from
\* before that call.
C17_Witness ==
    /\ ui.op = "track_usage"
    /\ ui.pc = "idle"
    /\ store = ui.rec
    /\ \E i \in ThreadIds : threads[i].pc = "post" /\ threads[i].snap = ui.read

\* C18: with no analytics_endpoint configured a flush is a no-op: no HTTP
\* request is ever posted or awaited, and no _send thread writes the stored
\* record, so last_analytics_sent stays unset.
C18_NoEndpointNoFlush ==
    ~endpoint
    => /\ posts = <<>>
       /\ \A i \in ThreadIds : threads[i].pc \in {"none", "start"}
       /\ ~dirty
       /\ LastSent(store) = NoneT

\* C18 witness: without an endpoint, try_send_daily_analytics() was called on
\* a record with content, its thread ran and ended, and the record is as the
\* call read it.
C18_Witness ==
    /\ ~endpoint
    /\ ui.op = "try_send_daily_analytics"
    /\ ui.pc = "idle"
    /\ ui.read # EmptyDict
    /\ InFlight = {}
    /\ store = ui.read

TrackingOps ==
    LedgerOps \ {"is_user_logged_in", "get_retention_metrics",
                 "try_send_daily_analytics"}

\* C19: a configuration-store failure (getConfig or writeConfig raising)
\* during a tracking operation does not reach the caller: no call of a
\* tracking operation ends by raising.
C19_ConfigFailureContained == ~(ui.pc = "raised" /\ ui.op \in TrackingOps)

Flags == {"has_logged_in", "onboarding_completed"}

\* the documented default of a field: counters 0, daily_usage empty, flags
\* false, optional fields unset
Default(field) ==
    CASE field \in Counters -> 0
      [] field = "daily_usage" -> EmptyDict
      [] field \in Flags -> FALSE
      [] field \in {"signup_method", "auth_button_clicked", "tutorial_status"}
             -> NoneS
      [] OTHER -> NoneT

\* the field's value, or its default when the record lacks it
Val(rec, field) == Get(rec, field, Default(field))

\* C20: every ledger operation and reader, run on a persisted record with any
\* subset of fields missing, completes and gives what it gives when each
\* missing field holds its default; track_usage() on the empty record stores
\* total_uses = 1 and one daily_usage entry, for today.
C20_MissingFieldsAreDefaults ==
    (calls = 1 /\ ui.pc = "idle")
    => LET r == ui.read
           s == store
           today == StrfDate(DayOf(ui.t))
       IN  /\ ui.op = "init_analytics"
               => IF Val(r, "first_install_date") = NoneT
                  THEN /\ s["first_install_date"] = IsoFormat(ui.t)
                       /\ \A c \in Counters : s[c] = 0
                       /\ \A f \in Flags : s[f] = FALSE
                       /\ DOMAIN s["daily_usage"] = {}
                  ELSE s = r
           /\ ui.op = "track_usage"
               => /\ s["total_uses"] = Val(r, "total_uses") + 1
                  /\ s["daily_usage"][today]
                         = Get(Val(r, "daily_usage"), today, 0) + 1
                  /\ DOMAIN s["daily_usage"]
                         = DOMAIN Val(r, "daily_usage") \cup {today}
                  /\ s["last_used_date"] = today
           /\ ui.op = "track_signup_click"
               => IF Val(r, "signup_method") = NoneS
                  THEN /\ s["signup_method"] = ui.arg
                       /\ s["signup_date"] = IsoFormat(ui.t)
                  ELSE s = r
           /\ ui.op = "track_auth_button_click"
               => IF Val(r, "auth_button_clicked") = NoneS
                  THEN /\ s["auth_button_clicked"] = ui.arg
                       /\ s["auth_button_click_date"] = IsoFormat(ui.t)
                  ELSE s = r
           /\ ui.op = "track_login_detected"
               => IF Val(r, "has_logged_in")
                  THEN s = r
                  ELSE /\ s["has_logged_in"]
                       /\ s["first_login_date"] = IsoFormat(ui.t)
           /\ ui.op = "is_user_logged_in"
               => (ui.ret.value = Val(r, "has_logged_in") /\ s = r)
           /\ ui.op = "track_onboarding_completed"
               => (s["onboarding_completed"]
                      /\ (Val(r, "onboarding_completed") => s = r))
           /\ ui.op = "track_tutorial_status"
               => IF Val(r, "tutorial_status") = "completed"
                  THEN s = r
                  ELSE s["tutorial_status"] = ui.arg
           /\ ui.op = "track_tutorial_step"
               => s["tutorial_current_step"] = StepString(ui.arg[1], ui.arg[2])
           /\ ui.op = "track_quick_action_used"
               => s["quick_action_usage_count"]
                      = Val(r, "quick_action_usage_count") + 1
           /\ ui.op = "track_shortcut_used"
               => s["shortcut_usage_count"] = Val(r, "shortcut_usage_count") + 1
           /\ ui.op = "get_retention_metrics"
               => /\ s = r
                  /\ IF Val(r, "first_install_date") = NoneT
                     THEN DOMAIN ui.ret = {}
                     ELSE /\ ui.ret.total_uses = Val(r, "total_uses")
                          /\ ui.ret.active_days
                                 = Cardinality(DOMAIN Val(r, "daily_usage"))
                          /\ ui.ret.last_used = Val(r, "last_used_date")
                          /\ ui.ret.has_logged_in = Val(r, "has_logged_in")
                          /\ ui.ret.signup_method = Val(r, "signup_method")
           /\ ui.op = "try_send_daily_analytics"
               => /\ s = r
                  /\ InFlight # {}
                         <=> (Val(r, "last_analytics_sent") = NoneT
                                 \/ ~DatedOn(Val(r, "last_analytics_sent"),
                                             DayOf(ui.t)))

\* C20 witness: track_usage() ran on the empty record and stored
\* total_uses = 1 and one daily_usage entry, for today.
C20_Witness ==
    /\ calls = 1
    /\ ui.op = "track_usage"
    /\ ui.pc = "idle"
    /\ ui.read = EmptyDict
    /\ store["total_uses"] = 1
    /\ store["daily_usage"] = [d \in {StrfDate(DayOf(ui.t))} |-> 1]

\* C21: a failure of locale detection never fails initialization: when
\* get_locale_info() raised inside and gave {}, init_analytics() on a record
\* without first_install_date still completes and stores first_install_date,
\* the platform and all defaults, with locale and timezone unset.
C21_LocaleFailureTolerated ==
    (After("init_analytics") /\ ~IsSet(ui.read, "first_install_date", NoneT)
        /\ DOMAIN ui.arg = {})
    => /\ store["first_install_date"] = IsoFormat(ui.t)
       /\ store["platform"] = Platform
       /\ store["locale"] = NoneS
       /\ store["timezone"] = NoneS
       /\ \A c \in Counters : store[c] = 0
       /\ DOMAIN store["daily_usage"] = {}
       /\ \A f \in Flags : store[f] = FALSE
       /\ \A f \in {"signup_method", "auth_button_clicked", "tutorial_status"} :
              store[f] = NoneS
       /\ \A f \in {"last_used_date", "tutorial_current_step"} :
              store[f] = NoneT

\* C21 witness: init_analytics() has completed on the empty record with
\* locale detection failing; the record has its install date and no locale.
C21_Witness ==
    /\ After("init_analytics")
    /\ ui.read = EmptyDict
    /\ DOMAIN ui.arg = {}
    /\ IsSet(store, "first_install_date", NoneT)
    /\ store["locale"] = NoneS

\* C22: a track_usage() call on date D stores total_uses one above what it
\* read, daily_usage[D] one above what it read (1 when there was none) and
\* last_used_date = D; the pruning of the same call keeps the entry for D.
C22_UsageCounted ==
    After("track_usage")
    => LET D == StrfDate(DayOf(ui.t))
           before == Val(ui.read, "daily_usage")
       IN  /\ store["total_uses"] = Val(ui.read, "total_uses") + 1
           /\ D \in DOMAIN store["daily_usage"]
           /\ store["daily_usage"][D] = Get(before, D, 0) + 1
           /\ store["last_used_date"] = D

\* C22 witness: the second track_usage() call of a day has completed and the
\* day's entry went from 1 to 2.
C22_Witness ==
    /\ After("track_usage")
    /\ Get(Val(ui.read, "daily_usage"), StrfDate(DayOf(ui.t)), 0) = 1
    /\ store["daily_usage"][StrfDate(DayOf(ui.t))] = 2
    /\ store["total_uses"] = 2

SameButStep(before, after) ==
    /\ DOMAIN after = DOMAIN before \cup {"tutorial_current_step"}
    /\ \A f \in DOMAIN before \ {"tutorial_current_step"} : after[f] = before[f]

\* C24: track_tutorial_step(current, total) always stores "current/total" as
\* tutorial_current_step, also when the step goes back and when
\* tutorial_status is "completed", and changes no other field.
C24_StepOverwritten ==
    After("track_tutorial_step")
    => /\ store["tutorial_current_step"]
              = <<Chr0 + ui.arg[1], ChrSlash, Chr0 + ui.arg[2]>>
       /\ SameButStep(ui.read, store)

\* C24 witness: track_tutorial_step(1, 2) has completed on a record that held
\* "2/2", and the record holds "1/2".
C24_Witness ==
    /\ After("track_tutorial_step")
    /\ Val(ui.read, "tutorial_current_step") = <<Chr0 + 2, ChrSlash, Chr0 + 2>>
    /\ store["tutorial_current_step"] = <<Chr0 + 1, ChrSlash, Chr0 + 2>>

\* C25: get_retention_metrics() is a pure read: the call makes no save, the
\* stored record is what the call read, and the result is empty whenever
\* first_install_date is not recorded.
C25_MetricsPureRead ==
    ui.op = "get_retention_metrics"
    => /\ ui.pc = "idle"
       /\ ui.rec = ui.read
       /\ ~dirty => store = ui.read
       /\ ~IsSet(ui.read, "first_install_date", NoneT) => DOMAIN ui.ret = {}

\* C25 witness: get_retention_metrics() has returned an empty result for a
\* record with usage in it and no install date, and the record is unchanged.
C25_Witness ==
    /\ After("get_retention_metrics")
    /\ ~IsSet(ui.read, "first_install_date", NoneT)
    /\ Val(ui.read, "total_uses") = 1
    /\ DOMAIN ui.ret = {}
    /\ store = ui.read

\* the sum of the counts of a daily_usage dict
RECURSIVE SumCounts(_)
SumCounts(daily_usage) ==
    IF DOMAIN daily_usage = {} THEN 0
    ELSE LET d == CHOOSE x \in DOMAIN daily_usage : TRUE
         IN  daily_usage[d]
                 + SumCounts([x \in DOMAIN daily_usage \ {d} |-> daily_usage[x]])

\* C26: from the empty record, under every interleaving of ledger operations
\* and flush completions, the counts in the stored daily_usage sum to at most
\* the stored total_uses.
C26_DailySumWithinTotal ==
    SumCounts(Val(store, "daily_usage")) <= Val(store, "total_uses")

\* C26 witness: track_usage() has run twice, the second time pruning the
\* first day's entry: total_uses is 2 and the daily counts sum to 1.
C26_Witness ==
    /\ After("track_usage")
    /\ store["total_uses"] = 2
    /\ SumCounts(store["daily_usage"]) = 1

\* ------------------------------------------------------------ the widgets
\* the sections of the checklist that are expanded
Expanded(checklist) ==
    {section_idx \in SectionIds : ~checklist.collapsed[section_idx]}

\* C27: in the tutorial checklist at most one section is expanded at a time,
\* whatever toggle_section calls were made: a call on a collapsed section
\* leaves that section as the only expanded one, a call on the expanded
\* section leaves none expanded.
C27_OneSectionExpanded ==
    [][HasChecklist'
          => /\ Cardinality(Expanded(manager'.checklist[1])) <= 1
             /\ (HasChecklist /\ manager'.checklist[1].collapsed
                                     # manager.checklist[1].collapsed)
                 => \E section_idx \in SectionIds :
                        Expanded(manager'.checklist[1])
                            = IF manager.checklist[1].collapsed[section_idx]
                              THEN {section_idx}
                              ELSE {}]_vars

\* C27 witness: the first section was expanded by the timer of setup_ui, then
\* a click expanded the third: it is the only one expanded.
C27_Witness ==
    /\ HasChecklist
    /\ ~manager.checklist[1].expand_pending
    /\ Expanded(manager.checklist[1]) = {2}

\* C28: whenever the manager has a checklist, its completed_tasks is the set
\* of the task ids marked completed in that checklist; each section's
\* completed_count counts its completed tasks once each and is at most its
\* total_count; and task 1 is completed whenever task 2 is.
C28_ManagerMatchesChecklist ==
    HasChecklist
    => LET checklist == manager.checklist[1]
       IN  /\ manager.completed_tasks
                  = {task_id \in TaskIds : checklist.completed[task_id]}
           /\ \A section_idx \in SectionIds :
                  /\ checklist.completed_count[section_idx]
                         <= checklist.total_count[section_idx]
                  /\ checklist.completed_count[section_idx]
                         = Cardinality({task_id \in SectionTasks[section_idx] :
                                           checklist.completed[task_id]})
           /\ checklist.completed[2] => checklist.completed[1]


\* the recording ends in this step
RecordingEnds ==
    recorder.recording_target # NoneS /\ recorder'.recording_target = NoneS

\* the timer that fires in this step was scheduled during the recording
\* that is running
OwnTimerFires ==
    \E k \in DOMAIN recorder.timers :
        /\ recorder'.timers = Without(recorder.timers, k)
        /\ recorder.timers[k] = recorder.recordings

\* C29: a recording ends only when none of the keys it captured is still
\* held down and by a timer scheduled during that same recording; it then
\* replaces the target's shortcut by the captured keys if there are any and
\* leaves every shortcut alone otherwise
C29_RecordingEndsWhenReleased ==
    [][RecordingEnds =>
          /\ Elems(recorder.pressed_keys) \cap recorder.held = {}
          /\ OwnTimerFires
          /\ recorder'.shortcuts =
                IF recorder.pressed_keys # <<>>
                THEN [recorder.shortcuts EXCEPT
                         ![recorder.recording_target] = recorder.pressed_keys]
                ELSE recorder.shortcuts]_vars

\* a recording ended by a timer left over from the recording before it
C29_StaleTimerEndsRecording ==
    [][~(RecordingEnds /\ ~OwnTimerFires)]_vars

\* a recording ended while a key it captured is still held down
C29_EndsWhileHeld ==
    [][~(RecordingEnds /\ Elems(recorder.pressed_keys) \cap recorder.held # {})]_vars

\* C30: complete_onboarding, and with it the replacement of the onboarding
\* widget by the panel, runs at most once, however often update_progress is
\* called once every task is complete
C30_CompletedOnce ==
    accordion.completions <= 1 /\ accordion.replacements <= 1

\* every task is complete and complete_onboarding is scheduled twice
C30_ScheduledTwice ==
    ~((\A item_index \in ItemIds : accordion.checked[item_index])
      /\ accordion.complete_timers > 1)
====
